---- MODULE Spec2Model ----
(***************************************************************************)
(* A model of Calc.py: the line calculator made of tokenise, the           *)
(* precedence-climbing Parser and Expr.evaluate, driven by main's loop     *)
(* over the input lines.                                                   *)
(*                                                                         *)
(* Representation.                                                         *)
(*  - A Python string is a sequence of one-character strings, so that      *)
(*    slicing, prefix tests and character classes are computed as the      *)
(*    code computes them.  Tokens are never empty, so the empty sequence   *)
(*    stands for None in the fields tok and op of an Expr.                 *)
(*  - An Expr is a record [tok, op, left, right]; a child slot is a        *)
(*    sequence of length 0 (None) or 1 (the child Expr).                   *)
(*  - A result of evaluate is a record [k, n, d, e]: k = "int" (the        *)
(*    integer n), "float" (the rational n/d in lowest terms, d > 0),       *)
(*    "None", "raise" (an uncaught exception named e), or "untracked"      *)
(*    (an outcome whose value lies outside the arithmetic the model        *)
(*    tracks: a magnitude beyond MaxMag or a power with a non-integer      *)
(*    exponent).  Floats are exact rationals: rounding is not modelled.    *)
(***************************************************************************)
EXTENDS Integers, Sequences, FiniteSets, TLC

\* ------------------------------------------------------------------ bounds

\* Largest numerator or denominator the model's arithmetic tracks.
MaxMag == 30000

\* ------------------------------------------------------- operator table

UNARYOP == 1
BINARYOP == 2
SUBEXPR == 3

LEFT == "L"
RIGHT == "R"

\* Op_Sets with its last two rows exchanged: the prefix operators ranked
\* above '**'.
Op_Sets_UnaryAbovePower ==
  << <<BINARYOP, LEFT,  << <<"|">> >> >>,
     <<BINARYOP, LEFT,  << <<"^">> >> >>,
     <<BINARYOP, LEFT,  << <<"&">> >> >>,
     <<BINARYOP, LEFT,  << <<"<", "<">>, <<">", ">">> >> >>,
     <<BINARYOP, LEFT,  << <<"+">>, <<"-">> >> >>,
     <<BINARYOP, LEFT,  << <<"*">>, <<"/">>, <<"%">> >> >>,
     <<BINARYOP, RIGHT, << <<"*", "*">> >> >>,
     <<UNARYOP,  RIGHT, << <<"+", " ", "x">>, <<"-", " ", "x">>, <<"~", " ", "x">> >> >> >>

\* Op_Sets, lowest precedence first: (kind, associativity, operators).
Op_Sets ==
  << <<BINARYOP, LEFT,  << <<"|">> >> >>,
     <<BINARYOP, LEFT,  << <<"^">> >> >>,
     <<BINARYOP, LEFT,  << <<"&">> >> >>,
     <<BINARYOP, LEFT,  << <<"<", "<">>, <<">", ">">> >> >>,
     <<BINARYOP, LEFT,  << <<"+">>, <<"-">> >> >>,
     <<BINARYOP, LEFT,  << <<"*">>, <<"/">>, <<"%">> >> >>,
     <<UNARYOP,  RIGHT, << <<"+", " ", "x">>, <<"-", " ", "x">>, <<"~", " ", "x">> >> >>,
     <<BINARYOP, RIGHT, << <<"*", "*">> >> >> >>

Range(s) == {s[i] : i \in DOMAIN s}

\* build_Op_Table: the precedence of an operator is the 1-based position of
\* its set in Op_Sets.
Op_Table ==
  [op \in UNION {Range(Op_Sets[p][3]) : p \in DOMAIN Op_Sets} |->
     LET p == CHOOSE q \in DOMAIN Op_Sets : op \in Range(Op_Sets[q][3])
     IN  [kind |-> Op_Sets[p][1], associativity |-> Op_Sets[p][2], precedence |-> p]]

\* Predefined_Tokens listed with the single characters before the pairs.
Predefined_Tokens_SinglesFirst ==
  << <<"(">>, <<")">>,
     <<"~">>,
     <<"+">>, <<"-">>, <<"*">>, <<"/">>, <<"%">>,
     <<"|">>, <<"^">>, <<"&">>,
     <<"*", "*">>,
     <<"<", "<">>, <<">", ">">> >>

\* Listed longest first.
Predefined_Tokens ==
  << <<"*", "*">>,
     <<"<", "<">>, <<">", ">">>,
     <<"(">>, <<")">>,
     <<"~">>,
     <<"+">>, <<"-">>, <<"*">>, <<"/">>, <<"%">>,
     <<"|">>, <<"^">>, <<"&">> >>

\* ---------------------------------------------------------------- tokenise

Whitespace == {" ", "\t", "\n"}

Digits == {"0", "1", "2", "3", "4", "5", "6", "7", "8", "9"}

\* The characters of the tokeniser's number rule: "0123456789abcdefABCDEF.xXbo".
NumberChars ==
  Digits \cup {"a", "b", "c", "d", "e", "f", "A", "B", "C", "D", "E", "F",
               ".", "x", "X", "o"}

Min(a, b) == IF a < b THEN a ELSE b

\* Python's s[i:j] for 0 <= i, j: the characters at 0-based positions i..j-1,
\* clipped to the string.
Slice(s, i, j) == SubSeq(s, i + 1, Min(j, Len(s)))

\* The for-loop over Predefined_Tokens at position start: the index of the
\* first predefined token the line continues with, 0 when there is none.
RECURSIVE FirstPunct(_, _, _)
FirstPunct(line, start, k) ==
  IF k > Len(Predefined_Tokens) THEN 0
  ELSE IF Slice(line, start, start + Len(Predefined_Tokens[k])) = Predefined_Tokens[k]
       THEN k
       ELSE FirstPunct(line, start, k + 1)

\* The inner while-loop of the number rule: the first position from i on that
\* holds no number character.
RECURSIVE NumberEnd(_, _)
NumberEnd(line, i) ==
  IF i < Len(line) /\ line[i + 1] \in NumberChars
  THEN NumberEnd(line, i + 1)
  ELSE i

\* The outer while-loop of tokenise, from 0-based position start with the
\* tokens found so far; returns the tokens and the position where the scan
\* stopped.
RECURSIVE TokLoop(_, _, _)
TokLoop(line, start, tokens) ==
  IF ~(start < Len(line)) THEN [tokens |-> tokens, start |-> start]
  ELSE IF line[start + 1] \in Whitespace THEN TokLoop(line, start + 1, tokens)
  ELSE LET k == FirstPunct(line, start, 1)
       IN  IF k # 0
           THEN TokLoop(line, start + Len(Predefined_Tokens[k]),
                        Append(tokens, Predefined_Tokens[k]))
           ELSE LET i == NumberEnd(line, start)
                IN  IF i > start
                    THEN TokLoop(line, i, Append(tokens, Slice(line, start, i)))
                    ELSE [tokens |-> tokens, start |-> start]

tokenise(line) == TokLoop(line, 0, << >>)

\* ------------------------------------------------------------------ values

IntVal(n) == [k |-> "int", n |-> n, d |-> 1, e |-> ""]
NoneVal == [k |-> "None", n |-> 0, d |-> 1, e |-> ""]
Raise(exc) == [k |-> "raise", n |-> 0, d |-> 1, e |-> exc]
Untracked == [k |-> "untracked", n |-> 0, d |-> 1, e |-> ""]

Abs(n) == IF n < 0 THEN -n ELSE n

RECURSIVE Gcd(_, _)
Gcd(a, b) == IF b = 0 THEN a ELSE Gcd(b, a % b)

\* The float n/d (d # 0), in lowest terms with a positive denominator.
FloatVal(n, d) ==
  LET g == Gcd(Abs(n), Abs(d))
      s == IF d < 0 THEN -1 ELSE 1
  IN  [k |-> "float", n |-> s * (n \div g), d |-> s * (d \div g), e |-> ""]

IsNum(v) == v.k \in {"int", "float"}

\* A number is tracked while its numerator and denominator stay within MaxMag.
Track(v) == IF IsNum(v) /\ (Abs(v.n) > MaxMag \/ v.d > MaxMag) THEN Untracked ELSE v

\* Python's truth value of a result: None, 0 and 0.0 are false.
Truthy(v) == IsNum(v) /\ v.n # 0

\* floor(n/d) for d > 0, and int()'s truncation towards zero.
Floor(n, d) == n \div d
Trunc(v) == IF v.n >= 0 THEN v.n \div v.d ELSE -((-v.n) \div v.d)

\* acc * b^e for e >= 0, cut off at the first product beyond MaxMag.
RECURSIVE PowAcc(_, _, _)
PowAcc(b, e, acc) ==
  IF e = 0 \/ Abs(acc) > MaxMag THEN acc ELSE PowAcc(b, e - 1, acc * b)

\* b^e for e >= 0; beyond MaxMag the result is only known to be beyond it.
PowNat(b, e) ==
  IF e = 0 THEN 1
  ELSE IF b = 0 THEN 0
  ELSE IF b = 1 THEN 1
  ELSE IF b = -1 THEN (IF e % 2 = 0 THEN 1 ELSE -1)
  ELSE PowAcc(b, e, 1)

\* Python's & on unbounded two's-complement integers.
RECURSIVE BitAnd(_, _)
BitAnd(x, y) ==
  IF x = 0 \/ y = 0 THEN 0
  ELSE IF x = -1 THEN y
  ELSE IF y = -1 THEN x
  ELSE (x % 2) * (y % 2) + 2 * BitAnd(x \div 2, y \div 2)

BitNot(x) == -x - 1
BitOr(x, y) == BitNot(BitAnd(BitNot(x), BitNot(y)))
BitXor(x, y) == BitOr(x, y) - BitAnd(x, y)

\* ---------------------------------------------------------------- to_number

HexDigits == Digits \cup {"a", "b", "c", "d", "e", "f", "A", "B", "C", "D", "E", "F"}

DigitValue(c) ==
  CASE c = "0" -> 0 [] c = "1" -> 1 [] c = "2" -> 2 [] c = "3" -> 3 [] c = "4" -> 4
    [] c = "5" -> 5 [] c = "6" -> 6 [] c = "7" -> 7 [] c = "8" -> 8 [] c = "9" -> 9
    [] c \in {"a", "A"} -> 10 [] c \in {"b", "B"} -> 11 [] c \in {"c", "C"} -> 12
    [] c \in {"d", "D"} -> 13 [] c \in {"e", "E"} -> 14 [] c \in {"f", "F"} -> 15

\* The value of a run of digits of the base, most significant first, cut off
\* beyond MaxMag; -1 when the run holds a character that is no digit of the
\* base.
RECURSIVE DigitsValue(_, _, _)
DigitsValue(s, base, acc) ==
  IF s = << >> THEN acc
  ELSE IF ~(s[1] \in HexDigits /\ DigitValue(s[1]) < base) THEN -1
  ELSE IF acc > MaxMag THEN DigitsValue(Tail(s), base, acc)
  ELSE DigitsValue(Tail(s), base, acc * base + DigitValue(s[1]))

\* The letters int(s, base) accepts after a leading "0" as the base's prefix.
BasePrefix(base) ==
  CASE base = 16 -> {"x", "X"} [] base = 8 -> {"o", "O"} [] base = 2 -> {"b", "B"}
    [] OTHER -> {}

\* Python's int(s, base) on a string of number characters: an optional prefix
\* of the base, then at least one digit of the base; ValueError otherwise.
PyInt(s, base) ==
  LET body == IF Len(s) >= 2 /\ s[1] = "0" /\ s[2] \in BasePrefix(base)
              THEN SubSeq(s, 3, Len(s)) ELSE s
      n == IF body = << >> THEN -1 ELSE DigitsValue(body, base, 0)
  IN  IF n < 0 THEN Raise("ValueError") ELSE Track(IntVal(n))

\* The length of the longest prefix of s made of decimal digits.
RECURSIVE DigitRun(_)
DigitRun(s) == IF s # << >> /\ s[1] \in Digits THEN 1 + DigitRun(Tail(s)) ELSE 0

\* Python's float(s) on a string of number characters: digits with at most one
\* ".", at least one digit, then optionally "e" or "E" and at least one digit;
\* ValueError otherwise.  The value is mantissa * 10^exponent.
PyFloat(s) ==
  LET ni == DigitRun(s)
      afterInt == SubSeq(s, ni + 1, Len(s))
      hasDot == afterInt # << >> /\ afterInt[1] = "."
      afterDot == IF hasDot THEN Tail(afterInt) ELSE afterInt
      nf == IF hasDot THEN DigitRun(afterDot) ELSE 0
      rest == SubSeq(afterDot, nf + 1, Len(afterDot))
      hasExp == rest # << >> /\ rest[1] \in {"e", "E"}
      expDigits == IF hasExp THEN Tail(rest) ELSE << >>
      ok == /\ ni + nf > 0
            /\ IF hasExp THEN expDigits # << >> /\ DigitRun(expDigits) = Len(expDigits)
                         ELSE rest = << >>
      mant == DigitsValue(SubSeq(s, 1, ni) \o SubSeq(afterDot, 1, nf), 10, 0)
      ex == IF hasExp THEN DigitsValue(expDigits, 10, 0) ELSE 0
      scale == PowNat(10, nf)
      mult == PowNat(10, ex)
  IN  IF ~ok THEN Raise("ValueError")
      ELSE IF mant > MaxMag \/ scale > MaxMag \/ mult > MaxMag THEN Untracked
      ELSE Track(FloatVal(mant * mult, scale))

to_number(tok) ==
  LET p == Slice(tok, 0, 2)
      HasChar(c) == \E i \in DOMAIN tok : tok[i] = c
  IN  IF p = <<"0", "x">> THEN PyInt(Slice(tok, 2, Len(tok)), 16)
      ELSE IF p = <<"0", "X">> THEN PyInt(Slice(tok, 2, Len(tok)), 16)
      ELSE IF p = <<"0", "o">> THEN PyInt(Slice(tok, 2, Len(tok)), 8)
      ELSE IF p = <<"0", "b">> THEN PyInt(Slice(tok, 2, Len(tok)), 2)
      ELSE IF HasChar(".") THEN PyFloat(tok)
      ELSE IF HasChar("e") THEN PyFloat(tok)
      ELSE IF HasChar("E") THEN PyFloat(tok)
      ELSE PyInt(tok, 10)

\* ------------------------------------------------------------ Expr

NoTok == << >>
NoOp == << >>

\* Expr(tok, op, left, right); left and right are << >> or <<child>>.
Expr(tok, op, left, right) == [tok |-> tok, op |-> op, left |-> left, right |-> right]

EmptyExpr == Expr(NoTok, NoOp, << >>, << >>)

is_empty(e) == e.tok = NoTok /\ e.op = NoOp /\ e.left = << >> /\ e.right = << >>
is_token(e) == e.tok # NoTok
is_unary_expr(e) == e.op # NoOp /\ e.left = << >> /\ e.right # << >>
\* is_parenth_expr looking for the child in the left slot.
is_parenth_expr_LeftSlot(e) == e.op = NoOp /\ e.left # << >> /\ e.right = << >>
is_parenth_expr(e) == e.op = NoOp /\ e.left = << >> /\ e.right # << >>
is_binary_exprs(e) == e.op # NoOp /\ e.left # << >> /\ e.right # << >>

\* ------------------------------------------------------- Python arithmetic
\* Each operator takes results that are "int", "float" or "None" and gives
\* the result of the Python expression, a number, or the exception it raises.

IsInt(v) == v.k = "int"

\* x - y.
PySub(x, y) ==
  IF ~IsNum(x) \/ ~IsNum(y) THEN Raise("TypeError")
  ELSE IF IsInt(x) /\ IsInt(y) THEN Track(IntVal(x.n - y.n))
  ELSE Track(FloatVal(x.n * y.d - y.n * x.d, x.d * y.d))

\* x * y.
PyMul(x, y) ==
  IF ~IsNum(x) \/ ~IsNum(y) THEN Raise("TypeError")
  ELSE IF IsInt(x) /\ IsInt(y) THEN Track(IntVal(x.n * y.n))
  ELSE Track(FloatVal(x.n * y.n, x.d * y.d))

\* x | y, x ^ y, x & y.
PyBitwise(op, x, y) ==
  IF ~IsInt(x) \/ ~IsInt(y) THEN Raise("TypeError")
  ELSE IF op = <<"|">> THEN IntVal(BitOr(x.n, y.n))
  ELSE IF op = <<"^">> THEN IntVal(BitXor(x.n, y.n))
  ELSE IntVal(BitAnd(x.n, y.n))

\* x << y.
PyLShift(x, y) ==
  IF ~IsInt(x) \/ ~IsInt(y) THEN Raise("TypeError")
  ELSE IF y.n < 0 THEN Raise("ValueError")
  ELSE IF x.n = 0 THEN IntVal(0)
  ELSE LET p == PowNat(2, y.n)
       IN  IF p > MaxMag THEN Untracked ELSE Track(IntVal(x.n * p))

\* x >> y.
PyRShift(x, y) ==
  IF ~IsInt(x) \/ ~IsInt(y) THEN Raise("TypeError")
  ELSE IF y.n < 0 THEN Raise("ValueError")
  ELSE LET p == PowNat(2, y.n)
       IN  IF p > MaxMag THEN IntVal(IF x.n < 0 THEN -1 ELSE 0)
           ELSE IntVal(Floor(x.n, p))

\* x / float(y), for a number y # 0.
PyTrueDiv(x, y) ==
  IF ~IsNum(x) THEN Raise("TypeError")
  ELSE Track(FloatVal(x.n * y.d, x.d * y.n))

\* x % m for an integer m: the remainder has the sign of m.
PyMod(x, m) ==
  IF ~IsNum(x) THEN Raise("TypeError")
  ELSE IF m = 0 THEN Raise("ZeroDivisionError")
  ELSE LET den == x.d * m
           q == IF den > 0 THEN Floor(x.n, den) ELSE Floor(-x.n, -den)
           r == x.n - m * q * x.d
       IN  IF IsInt(x) THEN IntVal(r) ELSE Track(FloatVal(r, x.d))

\* float(x) ** float(y).
PyPow(x, y) ==
  IF ~IsNum(x) \/ ~IsNum(y) THEN Raise("TypeError")
  ELSE IF y.d # 1 THEN Untracked
  ELSE IF x.n = 0 /\ y.n < 0 THEN Raise("ZeroDivisionError")
  ELSE LET e == Abs(y.n)
           pn == PowNat(x.n, e)
           pd == PowNat(x.d, e)
       IN  IF Abs(pn) > MaxMag \/ pd > MaxMag THEN Untracked
           ELSE IF y.n >= 0 THEN FloatVal(pn, pd) ELSE FloatVal(pd, pn)

\* +y, -y, ~int(y).
PyPos(y) == IF ~IsNum(y) THEN Raise("TypeError") ELSE y
PyNeg(y) == IF ~IsNum(y) THEN Raise("TypeError") ELSE [y EXCEPT !.n = -y.n]
PyInvertInt(y) == IF ~IsNum(y) THEN Raise("TypeError") ELSE IntVal(BitNot(Trunc(y)))

\* ----------------------------------------------------------- Expr.evaluate

MsgTooFew == "Error: has too few items."
MsgLeaf == "Parse error: leaf node wasn't a literal number."
MsgDivZero == "Error: division by zero."
MsgModZero == "Error: modulo by zero."
MsgEvaluating == "Error: evaluating"

\* What evaluate hands back: the result v and the lines it printed.
Ret(v, out) == [v |-> v, out |-> out]

\* The branch for '/' without its guard.
EvalDiv_Unguarded(x, y) == Ret(PyTrueDiv(x, y), << >>)

\* The branch of evaluate's elif chain for '/': the guard "if y".
EvalDiv(x, y) ==
  IF Truthy(y) THEN Ret(PyTrueDiv(x, y), << >>) ELSE Ret(NoneVal, <<MsgDivZero>>)

\* The branch for '%': "if y", then x % int(y).
EvalMod(x, y) ==
  IF Truthy(y) THEN Ret(PyMod(x, Trunc(y)), << >>) ELSE Ret(NoneVal, <<MsgModZero>>)

\* The elif chain on self.op, with x and y evaluated to a number or None.
ApplyOp(op, x, y) ==
  IF op \in {<<"|">>, <<"^">>, <<"&">>} THEN Ret(PyBitwise(op, x, y), << >>)
  ELSE IF op = <<"<", "<">> THEN Ret(PyLShift(x, y), << >>)
  ELSE IF op = <<">", ">">> THEN Ret(PyRShift(x, y), << >>)
  ELSE IF op = <<"+">> THEN Ret(PySub(x, y), << >>)
  ELSE IF op = <<"-">> THEN Ret(PySub(x, y), << >>)
  ELSE IF op = <<"*">> THEN Ret(PyMul(x, y), << >>)
  ELSE IF op = <<"/">> THEN EvalDiv(x, y)
  ELSE IF op = <<"%">> THEN EvalMod(x, y)
  ELSE IF op = <<"+", " ", "x">> THEN Ret(PyPos(y), << >>)
  ELSE IF op = <<"-", " ", "x">> THEN Ret(PyNeg(y), << >>)
  ELSE IF op = <<"~", " ", "x">> THEN Ret(PyInvertInt(y), << >>)
  ELSE IF op = <<"*", "*">> THEN Ret(PyPow(x, y), << >>)
  ELSE Ret(NoneVal, <<MsgEvaluating>>)

\* An outcome that ends the evaluation of the enclosing node: an exception
\* propagates, and an untracked operand leaves the node's outcome untracked.
Stops(v) == v.k \in {"raise", "untracked"}

\* Expr.evaluate.  Every tok the parser stores is a string, so the branch for
\* a numeric tok is never taken.
RECURSIVE evaluate(_)
evaluate(e) ==
  IF is_token(e) THEN Ret(to_number(e.tok), << >>)
  ELSE IF is_parenth_expr(e) THEN evaluate(e.right[1])
  ELSE IF e.op # NoOp /\ e.left = << >> /\ e.right = << >>
       THEN Ret(NoneVal, <<MsgTooFew>>)
  ELSE LET xr == IF e.left = << >> THEN Ret(NoneVal, << >>)
                 ELSE IF is_empty(e.left[1]) THEN Ret(NoneVal, << >>)
                 ELSE evaluate(e.left[1])
       IN  IF Stops(xr.v) THEN xr
           ELSE IF e.right = << >> THEN xr
           ELSE LET yr == IF is_empty(e.right[1]) THEN Ret(NoneVal, << >>)
                          ELSE evaluate(e.right[1])
                IN  IF Stops(yr.v) THEN Ret(yr.v, xr.out \o yr.out)
                    ELSE IF e.op = NoOp THEN Ret(NoneVal, xr.out \o yr.out \o <<MsgLeaf>>)
                    ELSE LET r == ApplyOp(e.op, xr.v, yr.v)
                         IN  Ret(r.v, xr.out \o yr.out \o r.out)

\* ------------------------------------------------------------------ Parser

MsgEnded == "Parse error: source ended unexpectedly"
MsgUnmatched == "Parse error: unmatched \"(\""
MsgNotAtom == "Parse error: expected an atom, not an operator"

ParseMsgs == {MsgEnded, MsgUnmatched, MsgNotAtom}

\* get_curr_token with the cursor at idx (0-based): NoTok stands for None.
get_curr_token(toks, idx) == IF idx < Len(toks) THEN toks[idx + 1] ELSE NoTok

\* What a parse method hands back: the Expr e, the cursor current_index, the
\* lines printed by parse_error, and exc, the name of the exception that ended
\* the call ("" when it returned).
Parsed(e, idx, out, exc) == [e |-> e, idx |-> idx, out |-> out, exc |-> exc]

\* The prefix operators parse_atom looks for.
PrefixToks == {<<"-">>, <<"+">>, <<"~">>, <<"n", "o", "t">>}

\* next_min_prec taking every operator for left-associative.
next_min_prec_AlwaysLeft(associativity, precedence) == precedence + 1

\* The minimal precedence for the recursive call of parse_expr.
next_min_prec(associativity, precedence) ==
  IF associativity = LEFT THEN precedence + 1 ELSE precedence

\* "Update lhs with the new value": the Expr built from lhs, op and rhs, or
\* the exception the update raises.
Fold(idx, out, lhs, op, rhs) ==
  LET kind == Op_Table[op].kind
      binary == Expr(NoTok, op, <<lhs>>, <<rhs>>)
  IN  IF kind = UNARYOP THEN Parsed(Expr(NoTok, op, << >>, <<rhs>>), idx, out, "")
      ELSE IF is_token(lhs) THEN Parsed(binary, idx, out, "")
      ELSE IF is_parenth_expr(lhs)
           THEN Parsed(Expr(NoTok, op, <<lhs.right[1]>>, <<rhs>>), idx, out, "")
      ELSE IF lhs.op \notin DOMAIN Op_Table THEN Parsed(lhs, idx, out, "KeyError")
      ELSE LET prev == Op_Table[lhs.op]
           IN  IF /\ prev.kind = BINARYOP
                  /\ prev.associativity = Op_Table[op].associativity
                  /\ prev.precedence = Op_Table[op].precedence
               THEN Parsed(binary, idx, out, "")
               ELSE IF kind = UNARYOP THEN Parsed(lhs, idx, out, "TypeError")
               ELSE IF kind = BINARYOP THEN Parsed(binary, idx, out, "")
               ELSE Parsed(lhs, idx, out, "")

RECURSIVE parse_atom(_, _, _), parse_expr(_, _, _), ParseLoop(_, _, _, _, _)

\* Parser.parse_atom with the cursor at idx.
parse_atom(toks, idx, min_prec) ==
  LET tok == get_curr_token(toks, idx)
  IN  IF tok = NoTok THEN Parsed(EmptyExpr, idx, <<MsgEnded>>, "")
      ELSE IF tok = <<"(">>
           THEN LET sub == parse_expr(toks, idx + 1, 0)
                    out == IF get_curr_token(toks, sub.idx) # <<")">>
                           THEN sub.out \o <<MsgUnmatched>> ELSE sub.out
                IN  IF sub.exc # "" THEN sub
                    ELSE Parsed(Expr(NoTok, NoOp, << >>, <<sub.e>>), sub.idx + 1, out, "")
      ELSE IF tok \in PrefixToks
           THEN LET op == tok \o <<" ", "x">>
                IN  IF op \notin DOMAIN Op_Table THEN Parsed(EmptyExpr, idx, << >>, "KeyError")
                    ELSE LET sub == parse_expr(toks, idx + 1, Op_Table[op].precedence)
                         IN  IF sub.exc # "" THEN sub
                             ELSE Parsed(Expr(NoTok, op, << >>, <<sub.e>>), sub.idx, sub.out, "")
      ELSE IF tok \in DOMAIN Op_Table THEN Parsed(EmptyExpr, idx, <<MsgNotAtom>>, "")
      ELSE Parsed(Expr(tok, NoOp, << >>, << >>), idx + 1, << >>, "")

\* The while-loop of parse_expr, with lhs so far and the lines printed so far.
\* When lhs is a token that is an operator the code takes it as the operator
\* and sets lhs to None, and the update then fails on lhs.is_token(); parse_atom
\* returns a token Expr only for a token outside Op_Table, so that branch is
\* never entered.
ParseLoop(toks, idx, min_prec, lhs, out) ==
  LET tok == get_curr_token(toks, idx)
  IN  IF is_token(lhs) /\ lhs.tok \in DOMAIN Op_Table
      THEN Parsed(lhs, idx, out, "AttributeError")
      ELSE IF tok = NoTok THEN Parsed(lhs, idx, out, "")
      ELSE IF tok \notin DOMAIN Op_Table THEN Parsed(lhs, idx, out, "")
      ELSE IF Op_Table[tok].precedence < min_prec THEN Parsed(lhs, idx, out, "")
      ELSE LET rhs == parse_expr(toks, idx + 1,
                        next_min_prec(Op_Table[tok].associativity, Op_Table[tok].precedence))
               new == Fold(rhs.idx, out \o rhs.out, lhs, tok, rhs.e)
           IN  IF rhs.exc # "" THEN Parsed(rhs.e, rhs.idx, out \o rhs.out, rhs.exc)
               ELSE IF new.exc # "" THEN new
               ELSE ParseLoop(toks, new.idx, min_prec, new.e, new.out)

\* Parser.parse_expr with the cursor at idx.
parse_expr(toks, idx, min_prec) ==
  LET a == parse_atom(toks, idx, min_prec)
  IN  IF a.exc # "" THEN a ELSE ParseLoop(toks, a.idx, min_prec, a.e, a.out)

\* ------------------------------------------------------- the main loop

VARIABLES
  pc,             \* where the program stands: "start" (main's loop), "read",
                  \* "blank" (no tokens), "tokenised", "parsed", "printed", or
                  \* "crashed" (an uncaught exception ended the process)
  line,           \* the line handed to parse_and_print
  scanned,        \* tokenise's cursor start when its loop ended
  tokens,         \* tokenise's result, the parser's current_tokens
  current_index,  \* the parser's cursor when the top-level parse_expr ended
  expr,           \* the Expr parse_expr returned
  result,         \* what expr.evaluate() gave
  stdout,         \* the lines printed for this line by parse_error and evaluate
  raised          \* the name of the uncaught exception, "" when there is none

vars == <<pc, line, scanned, tokens, current_index, expr, result, stdout, raised>>

Init ==
  /\ pc = "start"
  /\ line = << >>
  /\ scanned = 0
  /\ tokens = << >>
  /\ current_index = 0
  /\ expr = EmptyExpr
  /\ result = NoneVal
  /\ stdout = << >>
  /\ raised = ""

\* main's loop hands the next line, one of the set S, to parse_and_print.
ReadFrom(S) ==
  /\ pc = "start"
  /\ \E l \in S : line' = l
  /\ pc' = "read"
  /\ UNCHANGED <<scanned, tokens, current_index, expr, result, stdout, raised>>

\* parse_and_print returns to main's loop: its locals are gone.  After an
\* uncaught exception the process is gone, and there is no return.
Return ==
  /\ pc \in {"blank", "printed"}
  /\ pc' = "start"
  /\ line' = << >>
  /\ scanned' = 0
  /\ tokens' = << >>
  /\ current_index' = 0
  /\ expr' = EmptyExpr
  /\ result' = NoneVal
  /\ stdout' = << >>
  /\ raised' = ""

\* parse_and_print: tokens = tokenise(line); if not tokens: return.
Tokenise ==
  /\ pc = "read"
  /\ LET t == tokenise(line)
     IN  /\ tokens' = t.tokens
         /\ scanned' = t.start
         /\ pc' = IF t.tokens = << >> THEN "blank" ELSE "tokenised"
  /\ UNCHANGED <<line, current_index, expr, result, stdout, raised>>

\* parser = Parser(tokens); expr = parser.parse_expr().
Parse ==
  /\ pc = "tokenised"
  /\ LET p == parse_expr(tokens, 0, 0)
     IN  /\ expr' = p.e
         /\ current_index' = p.idx
         /\ stdout' = p.out
         /\ raised' = p.exc
         /\ pc' = IF p.exc # "" THEN "crashed" ELSE "parsed"
  /\ UNCHANGED <<line, scanned, tokens, result>>

\* print(expr.evaluate()).  An untracked outcome may be a number or an
\* exception (OverflowError), so both continuations are possible.
Evaluate ==
  /\ pc = "parsed"
  /\ LET r == evaluate(expr)
     IN  /\ result' = r.v
         /\ stdout' = stdout \o r.out
         /\ raised' = IF r.v.k = "raise" THEN r.v.e ELSE ""
         /\ \E next \in (CASE r.v.k = "raise" -> {"crashed"}
                           [] r.v.k = "untracked" -> {"printed", "crashed"}
                           [] OTHER -> {"printed"}) : pc' = next
  /\ UNCHANGED <<line, scanned, tokens, current_index, expr>>

\* ------------------------------------------------------------- the inputs

\* The binary operators of Op_Table and the prefix operators of parse_atom,
\* as tokens.
BinaryOps == {op \in DOMAIN Op_Table : Op_Table[op].kind = BINARYOP}
PrefixOps == {<<"-">>, <<"+">>, <<"~">>}

\* Token sequences and their text: tokens separated by single spaces.
RECURSIVE Join(_)
Join(ts) ==
  IF ts = << >> THEN << >>
  ELSE IF Len(ts) = 1 THEN ts[1]
  ELSE ts[1] \o <<" ">> \o Join(Tail(ts))

\* All sequences over S of length 0..n.
RECURSIVE SeqsUpTo(_, _)
SeqsUpTo(S, n) ==
  IF n = 0 THEN {<< >>}
  ELSE LET shorter == SeqsUpTo(S, n - 1)
       IN  shorter \cup {Append(q, x) : q \in {r \in shorter : Len(r) = n - 1}, x \in S}

\* The lines of the header comment, of TestCalc.py and of the cases the
\* statements about the program name.
Line45 == <<"4", "5">>
LineBasic == <<"1", " ", "+", " ", "2", " ", "*", " ", "3">>
LineParenth == <<"(", "1", " ", "+", " ", "2", ")", " ", "*", " ", "3">>
LinePower == <<"5", "*", "2", "*", "*", "3">>
LineBases == <<"0", "x", "7", "f", " ", "-", " ", "0", "o", "7", " ", "+", " ", "0", "b", "1", "0", "1">>
LineFloatDiv == <<"(", "5", "-", "2", ")", "/", "3", ".", "0">>
LineLeftAssoc == <<"8", " ", "-", " ", "4", " ", "-", " ", "2">>
LineRightAssoc == <<"2", " ", "*", "*", " ", "3", " ", "*", "*", " ", "2">>
LineNegPower == <<"-", "2", " ", "*", "*", " ", "2">>
LineNegTimes == <<"-", "2", "*", "3">>
LineDivZero == <<"1", " ", "/", " ", "0">>
LineOpFirst == <<"*", " ", "3">>
LineOpLast == <<"1", " ", "+">>
LineEmptyParen == <<"(", ")">>
LineStrayParen == <<"1", " ", ")">>
LineZeroNegPower == <<"0", " ", "*", "*", " ", "-", "1">>
LineNoneOverZero == <<"(", "1", "/", "0", ")", "/", "0">>
LineFloatMod == <<"5", ".", "5", " ", "%", " ", "2">>
LineFloatInvert == <<"~", "1", ".", "5">>
LineFloatOr == <<"1", ".", "5", " ", "|", " ", "2">>
LineZeroModZero == <<"(", "1", "-", "1", ")", " ", "%", " ", "0", ".", "0">>
LineFloatOverZero == <<"1", "e", "2", " ", "/", " ", "(", "2", " ", "-", " ", "2", ")">>
LineLoneLess == <<"1", " ", "<", " ", "2">>
ExampleLines ==
  {Line45, LineBasic, LineParenth, LinePower,
   LineBases, LineFloatDiv, LineLeftAssoc, LineRightAssoc,
   LineNegPower, LineNegTimes, LineDivZero, LineOpFirst,
   LineOpLast, LineEmptyParen, LineStrayParen, LineZeroNegPower,
   LineNoneOverZero, LineFloatMod, LineFloatInvert, LineFloatOr,
   LineZeroModZero, LineFloatOverZero, LineLoneLess}

\* Longest line of tokens the main specification enumerates.
MaxTokens == 3

IntLits == {<<"0">>, <<"1">>, <<"2">>, <<"3">>}
FloatLits == {<<"1", ".", "5">>, <<"0", ".", "0">>}
Lits == IntLits \cup FloatLits

\* Every line of up to MaxTokens tokens over the literals, the operators and
\* the parentheses.
TokenLines ==
  {Join(ts) : ts \in SeqsUpTo(Lits \cup BinaryOps \cup {<<"~">>, <<"(">>, <<")">>}, MaxTokens)}

\* Operands of every kind of result: integers and floats of both signs, zero
\* of both kinds, and None.
Operands ==
  {<<l>> : l \in Lits}
    \cup {<<u, l>> : u \in {<<"-">>, <<"~">>}, l \in Lits}
    \cup {<<<<"(">>, <<"1">>, <<"/">>, <<"0">>, <<")">>>>,
          <<<<"(">>, <<"2">>, <<"-">>, <<"2">>, <<")">>>>,
          <<<<"(">>, <<"1">>, <<"/">>, <<"2">>, <<")">>>>}

\* x op y for every binary operator and every pair of operands.
OperandLines ==
  {Join(x \o <<op>> \o y) : x \in Operands, op \in BinaryOps, y \in Operands}

Lines == TokenLines \cup OperandLines \cup ExampleLines

\* Longest line the tokeniser's specification enumerates, and its characters:
\* whitespace, glyphs of one and of two characters, the first character of a
\* two-character glyph that is no glyph itself, number characters, and a
\* character of no rule.
MaxLineLen == 5
LexChars == {" ", "*", "<", "(", "1", "x", "$"}
LexLines == SeqsUpTo(LexChars, MaxLineLen) \cup ExampleLines

\* The lines of three literals and two binary operators, of a prefix operator
\* before a binary operation, and of two prefix operators.
PrecLits == {<<"2">>, <<"3">>, <<"1", ".", "5">>}
PrecLines ==
  {Join(<<a, op1, b, op2, c>>) :
       a \in PrecLits, op1 \in BinaryOps, b \in PrecLits, op2 \in BinaryOps, c \in PrecLits}
    \cup {Join(<<u, a, op, b>>) : u \in PrefixOps, a \in PrecLits, op \in BinaryOps, b \in PrecLits}
    \cup {Join(<<u, v, a>>) : u \in PrefixOps, v \in PrefixOps, a \in PrecLits}
    \cup ExampleLines

\* The syntactically valid expressions of n tokens:
\*   expr := atom (binop atom)*,  atom := literal | "(" expr ")" | prefix-op expr.
MaxExprTokens == 5
ParenLits == {<<"0">>, <<"2">>}

RECURSIVE ExprsOf(_), AtomsOf(_)
AtomsOf(n) ==
  IF n <= 0 THEN {}
  ELSE IF n = 1 THEN {<<l>> : l \in ParenLits}
  ELSE {<<u>> \o e : u \in PrefixOps, e \in ExprsOf(n - 1)}
         \cup {<< <<"(">> >> \o e \o << <<")">> >> : e \in ExprsOf(n - 2)}
ExprsOf(n) ==
  IF n <= 0 THEN {}
  ELSE AtomsOf(n)
         \cup UNION {{e \o <<op>> \o a : e \in ExprsOf(i), op \in BinaryOps, a \in AtomsOf(n - 1 - i)} :
                     i \in 1..(n - 2)}

ValidExprs == UNION {ExprsOf(n) : n \in 1..MaxExprTokens}

\* e and ( e ) for every valid expression e, and ( e ) op 2 for the valid
\* expressions of fewer than MaxExprTokens tokens.
ParenLines ==
  {Join(e) : e \in ValidExprs}
    \cup {Join(<< <<"(">> >> \o e \o << <<")">> >>) : e \in ValidExprs}
    \cup {Join(<< <<"(">> >> \o e \o << <<")">>, op, <<"2">> >>) :
             e \in {v \in ValidExprs : Len(v) < MaxExprTokens}, op \in BinaryOps}
    \cup ExampleLines

\* ------------------------------------------------------ the specifications

ReadLine == ReadFrom(Lines)
ReadLexLine == ReadFrom(LexLines)
ReadPrecLine == ReadFrom(PrecLines)
ReadParenLine == ReadFrom(ParenLines)

Next == ReadLine \/ Tokenise \/ Parse \/ Evaluate \/ Return
Spec == Init /\ [][Next]_vars

NextLex == ReadLexLine \/ Tokenise \/ Parse \/ Evaluate \/ Return
SpecLex == Init /\ [][NextLex]_vars

NextPrec == ReadPrecLine \/ Tokenise \/ Parse \/ Evaluate \/ Return
SpecPrec == Init /\ [][NextPrec]_vars

NextParen == ReadParenLine \/ Tokenise \/ Parse \/ Evaluate \/ Return
SpecParen == Init /\ [][NextParen]_vars

\* ------------------------------------------------------------ the claims

Leaf(tok) == Expr(tok, NoOp, << >>, << >>)
Paren(inner) == Expr(NoTok, NoOp, << >>, <<inner>>)
Unary(u, operand) == Expr(NoTok, u \o <<" ", "x">>, << >>, <<operand>>)
Binary(op, l, r) == Expr(NoTok, op, <<l>>, <<r>>)

\* A token the parser takes as a literal.
IsLiteral(tok) == tok \notin DOMAIN Op_Table \cup PrefixOps \cup {<<"(">>, <<")">>}

\* evaluate has run on expr: it returned (and the result was printed) or it
\* raised.
Evaluated == pc = "printed" \/ (pc = "crashed" /\ result.k \in {"raise", "untracked"})

\* parse_expr has run on tokens: it returned or it raised.
AfterParse == pc \in {"parsed", "printed", "crashed"}

\* tokenise has run on line.
AfterTokenise == pc \in {"blank", "tokenised", "parsed", "printed", "crashed"}

\* The value of a child slot as evaluate computes it: None when the slot is
\* None or holds the empty Expr.
SlotValue(slot) ==
  IF slot = << >> THEN NoneVal
  ELSE IF is_empty(slot[1]) THEN NoneVal
  ELSE evaluate(slot[1]).v

\* The nodes of an Expr.
RECURSIVE Nodes(_)
Nodes(e) ==
  {e} \cup (IF e.left = << >> THEN {} ELSE Nodes(e.left[1]))
      \cup (IF e.right = << >> THEN {} ELSE Nodes(e.right[1]))

\* The sum x + y of two numbers, which C1 names; evaluate has no branch that
\* computes it.
PyAdd(x, y) ==
  IF ~IsNum(x) \/ ~IsNum(y) THEN Raise("TypeError")
  ELSE IF IsInt(x) /\ IsInt(y) THEN Track(IntVal(x.n + y.n))
  ELSE Track(FloatVal(x.n * y.d + y.n * x.d, x.d * y.d))

\* C1: for integers x and y a Binary node with op '+' evaluates to x + y, with
\* '-' to x - y and with '*' to x * y, as an integer; "1 + 2 * 3" gives 7 and
\* "(1 + 2) * 3" gives 9.
C1_BinaryArithmetic ==
  Evaluated =>
    LET x == SlotValue(expr.left)
        y == SlotValue(expr.right)
    IN  /\ (is_binary_exprs(expr) /\ IsInt(x) /\ IsInt(y)) =>
             /\ expr.op = <<"+">> => result = PyAdd(x, y)
             /\ expr.op = <<"-">> => result = PySub(x, y)
             /\ expr.op = <<"*">> => result = PyMul(x, y)
        /\ line = LineBasic => result = IntVal(7)
        /\ line = LineParenth => result = IntVal(9)

\* C2: every line, malformed ones included, ends with a number or a reported
\* error and never with an uncaught exception, so that main's loop goes on to
\* the next line.
C2_NoUncaughtException ==
  /\ raised = ""
  /\ pc = "printed" => (IsNum(result) \/ result.k = "untracked" \/ stdout # << >>)

\* The message of a zero divisor under op, and the nodes with a zero divisor:
\* a '/' or '%' whose right operand evaluates to the integer or float zero.
C3_ZeroDivisorMsg(op) == IF op = <<"/">> THEN MsgDivZero ELSE MsgModZero
C3_ZeroDivisorCase(node) ==
  /\ node.op \in {<<"/">>, <<"%">>}
  /\ SlotValue(node.left).k \in {"int", "float", "None"}
  /\ IsNum(SlotValue(node.right))
  /\ SlotValue(node.right).n = 0

\* C3: a '/' or '%' node whose right operand evaluates to zero, whatever value
\* (a number or None) its left operand evaluates to, reports "division by
\* zero" or "modulo by zero" and gives None: no number and no exception.  It
\* holds of every node of the parsed Expr, and of the line's result when the
\* node is the root.
C3_ZeroDivisor ==
  /\ \A node \in Nodes(expr) :
       C3_ZeroDivisorCase(node) =>
         LET r == evaluate(node)
         IN  /\ r.v = NoneVal
             /\ r.out # << >>
             /\ r.out[Len(r.out)] = C3_ZeroDivisorMsg(node.op)
  /\ (Evaluated /\ C3_ZeroDivisorCase(expr)) =>
       /\ pc = "printed"
       /\ raised = ""
       /\ result = NoneVal
       /\ stdout # << >>
       /\ stdout[Len(stdout)] = C3_ZeroDivisorMsg(expr.op)

\* C3's case: a float modulo the float zero has been evaluated to None with
\* the error reported.
C3_Witness ==
  /\ pc = "printed"
  /\ expr.op = <<"%">>
  /\ SlotValue(expr.left).k = "float"
  /\ SlotValue(expr.right) = FloatVal(0, 1)
  /\ result = NoneVal
  /\ stdout = <<MsgModZero>>

\* C7: for integers a and b # 0 a '/' node evaluates to the float quotient,
\* and for all integers a and b a '**' node evaluates to a float, never to an
\* integer, an error or an exception.
C7_FloatResults ==
  Evaluated =>
    LET x == SlotValue(expr.left)
        y == SlotValue(expr.right)
    IN  (is_binary_exprs(expr) /\ IsInt(x) /\ IsInt(y)) =>
          /\ (expr.op = <<"/">> /\ y.n # 0) => result = Track(FloatVal(x.n, y.n))
          /\ expr.op = <<"*", "*">> => result.k \in {"float", "untracked"}

\* The operators the program's header says work on integers only.
IntegerOnlyOps ==
  {<<"|">>, <<"^">>, <<"&">>, <<"<", "<">>, <<">", ">">>, <<"%">>, <<"~", " ", "x">>}

\* C8: when an operand of '|', '^', '&', '<<', '>>', '%' or unary '~' evaluates
\* to a float, evaluation reports an error and gives no number: it neither
\* coerces the operand, nor returns a number, nor raises.
C8_IntegerOnly ==
  (/\ Evaluated
   /\ expr.op \in IntegerOnlyOps
   /\ SlotValue(expr.left).k \in {"int", "float", "None"}
   /\ SlotValue(expr.right).k \in {"int", "float"}
   /\ (SlotValue(expr.left).k = "float" \/ SlotValue(expr.right).k = "float"))
    => /\ pc = "printed"
       /\ result = NoneVal
       /\ stdout # << >>

\* C10: when the top-level parse_expr returns without a parse error reported,
\* the cursor stands at the end of the tokens: no token is left unconsumed.
C10_AllTokensConsumed ==
  (pc = "parsed" /\ stdout = << >>) => current_index = Len(tokens)

\* The tokens are a op1 b op2 c: literals around two binary operators.
C4_Shape ==
  /\ Len(tokens) = 5
  /\ IsLiteral(tokens[1]) /\ IsLiteral(tokens[3]) /\ IsLiteral(tokens[5])
  /\ tokens[2] \in BinaryOps /\ tokens[4] \in BinaryOps

\* C4: the tokens a op1 b op2 c, literals around two binary operators, parse
\* to (a op1 b) op2 c when op1 ranks above op2 or they rank equal in a
\* left-associative set, and to a op1 (b op2 c) when op1 ranks below op2 or
\* both are '**'; "8 - 4 - 2" evaluates to 2 and "2 ** 3 ** 2" to 512.0.
C4_Grouping ==
  /\ (AfterParse /\ C4_Shape) =>
       LET a == Leaf(tokens[1])
           b == Leaf(tokens[3])
           c == Leaf(tokens[5])
           op1 == tokens[2]
           op2 == tokens[4]
           r1 == Op_Table[op1].precedence
           r2 == Op_Table[op2].precedence
       IN  /\ (r1 > r2 \/ (r1 = r2 /\ Op_Table[op1].associativity = LEFT))
                => expr = Binary(op2, Binary(op1, a, b), c)
           /\ (r1 < r2 \/ (op1 = <<"*", "*">> /\ op2 = <<"*", "*">>))
                => expr = Binary(op1, a, Binary(op2, b, c))
           /\ current_index = 5
  /\ (AfterParse /\ pc # "parsed" /\ line = LineLeftAssoc) => (pc = "printed" /\ result = IntVal(2))
  /\ (AfterParse /\ pc # "parsed" /\ line = LineRightAssoc) =>
       (pc = "printed" /\ result = FloatVal(512, 1))

\* C4's case: two '**' in a row have been parsed to the right-leaning tree,
\* and "2 ** 3 ** 2" has been printed.
C4_Witness ==
  /\ pc = "printed"
  /\ line = LineRightAssoc
  /\ C4_Shape
  /\ expr = Binary(tokens[2], Leaf(tokens[1]), Binary(tokens[4], Leaf(tokens[3]), Leaf(tokens[5])))

\* C5: the tokens u a op b, a prefix operator before a binary operation on
\* literals, parse to (u a) op b for every binary operator of rank 1 to 6 and
\* to u (a ** b) for '**' ("-2**2" gives -4.0), and the tokens u v a, two
\* prefix operators, parse to u (v a).
C5_PrefixBinding ==
  /\ (/\ AfterParse
      /\ Len(tokens) = 4
      /\ tokens[1] \in PrefixOps /\ IsLiteral(tokens[2])
      /\ tokens[3] \in BinaryOps /\ IsLiteral(tokens[4]))
       => /\ Op_Table[tokens[3]].precedence \in 1..6 =>
               expr = Binary(tokens[3], Unary(tokens[1], Leaf(tokens[2])), Leaf(tokens[4]))
          /\ tokens[3] = <<"*", "*">> =>
               expr = Unary(tokens[1], Binary(tokens[3], Leaf(tokens[2]), Leaf(tokens[4])))
          /\ current_index = 4
  /\ (/\ AfterParse
      /\ Len(tokens) = 3
      /\ tokens[1] \in PrefixOps /\ tokens[2] \in PrefixOps /\ IsLiteral(tokens[3]))
       => /\ expr = Unary(tokens[1], Unary(tokens[2], Leaf(tokens[3])))
          /\ current_index = 3
  /\ (AfterParse /\ pc # "parsed" /\ line = LineNegPower) =>
       (pc = "printed" /\ result = FloatVal(-4, 1))
  /\ (AfterParse /\ pc # "parsed" /\ line = LineNegTimes) =>
       (pc = "printed" /\ result = IntVal(-6))

\* C5's case: "-2 ** 2" has been parsed to -(2 ** 2) and printed.
C5_Witness ==
  /\ pc = "printed"
  /\ line = LineNegPower
  /\ expr = Unary(<<"-">>, Binary(<<"*", "*">>, Leaf(<<"2">>), Leaf(<<"2">>)))
  /\ result = FloatVal(-4, 1)

\* The tokens are ( e ), or ( e ) op b with a literal b, for a valid e.
C6_Inner == SubSeq(tokens, 2, Len(tokens) - 1)
C6_Wrapped ==
  /\ Len(tokens) >= 3
  /\ tokens[1] = <<"(">>
  /\ tokens[Len(tokens)] = <<")">>
  /\ C6_Inner \in ValidExprs
C6_LeftInner == SubSeq(tokens, 2, Len(tokens) - 3)
C6_LeftOperand ==
  /\ Len(tokens) >= 5
  /\ tokens[1] = <<"(">>
  /\ tokens[Len(tokens) - 2] = <<")">>
  /\ tokens[Len(tokens) - 1] \in BinaryOps
  /\ IsLiteral(tokens[Len(tokens)])
  /\ C6_LeftInner \in ValidExprs

\* C6: for a syntactically valid expression e, the line ( e ) parses to the
\* Paren of e's own Expr with every token consumed, and gives the result of e:
\* the same number, the same None with the same lines printed, or the same
\* exception; and in ( e ) op b the parenthesized left operand counts as e's
\* Expr does, with or without its Paren node.
C6_ParenRoundTrip ==
  /\ (AfterParse /\ C6_Wrapped) =>
       LET p == parse_expr(C6_Inner, 0, 0)
           r == evaluate(p.e)
       IN  /\ p.exc = "" /\ p.out = << >> /\ p.idx = Len(C6_Inner)
           /\ expr = Paren(p.e)
           /\ current_index = Len(tokens)
           /\ Evaluated
                => /\ result = r.v
                   /\ stdout = r.out
                   /\ raised = (IF r.v.k = "raise" THEN r.v.e ELSE "")
           /\ pc # "parsed" => Evaluated
  /\ (AfterParse /\ C6_LeftOperand) =>
       LET p == parse_expr(C6_LeftInner, 0, 0)
           op == tokens[Len(tokens) - 1]
           b == Leaf(tokens[Len(tokens)])
       IN  /\ current_index = Len(tokens)
           /\ Evaluated
                => /\ result = evaluate(Binary(op, p.e, b)).v
                   /\ result = evaluate(Binary(op, Paren(p.e), b)).v
           /\ pc # "parsed" => Evaluated

\* C6's case: a parenthesized expression of several operators has been
\* printed with the value of its inside, a number.
C6_Witness ==
  /\ pc = "printed"
  /\ C6_Wrapped
  /\ Len(C6_Inner) >= 4
  /\ \E i \in 2..Len(C6_Inner) : IsLiteral(C6_Inner[i - 1]) /\ C6_Inner[i] \in BinaryOps
  /\ IsNum(result)
  /\ result = evaluate(parse_expr(C6_Inner, 0, 0).e).v

\* The tokens put end to end, a text without its whitespace, the first
\* characters of the predefined glyphs, and the first position of the line
\* whose character is neither whitespace, nor such a first character, nor a
\* number character.
RECURSIVE Concat(_)
Concat(ts) == IF ts = << >> THEN << >> ELSE ts[1] \o Concat(Tail(ts))
StripWS(text) == SelectSeq(text, LAMBDA c : c \notin Whitespace)
GlyphStarts == {Predefined_Tokens[k][1] : k \in DOMAIN Predefined_Tokens}
C9_FirstForeign ==
  LET foreign == {i \in DOMAIN line : line[i] \notin Whitespace \cup GlyphStarts \cup NumberChars}
  IN  IF foreign = {} THEN Len(line) + 1 ELSE CHOOSE i \in foreign : \A j \in foreign : i <= j

\* C9 as stated: the tokens, put end to end, are the line's text without its
\* whitespace up to the first character that is neither whitespace, nor the
\* first character of a predefined glyph, nor a number character.
C9_UpToFirstForeignChar ==
  AfterTokenise => Concat(tokens) = StripWS(SubSeq(line, 1, C9_FirstForeign - 1))

\* Where the tokens lie in the line: each token begins at the first character
\* that is no whitespace after the token before it (0-based positions).
RECURSIVE SkipWS(_, _)
SkipWS(text, i) == IF i < Len(text) /\ text[i + 1] \in Whitespace THEN SkipWS(text, i + 1) ELSE i
RECURSIVE Place(_, _, _)
Place(text, ts, from) ==
  IF ts = << >> THEN << >>
  ELSE LET at == SkipWS(text, from)
       IN  <<at>> \o Place(text, Tail(ts), at + Len(ts[1]))

IsNumberToken(t) == t # << >> /\ \A i \in DOMAIN t : t[i] \in NumberChars

\* C9, amended: tokenise ends; every token is one predefined glyph or a
\* maximal run of number characters; two characters that make up '**', '<<'
\* or '>>' are one token; and the tokens, put end to end, are the line's text
\* without its whitespace up to where the scan stopped, which is the end of
\* the line or a position, reached after whole tokens and whitespace, whose
\* character is no whitespace and no number character and where no predefined
\* glyph begins.  A single '<' or '>' is such a position.
C9_LongestMatch ==
  AfterTokenise =>
    LET at == Place(line, tokens, 0)
    IN  /\ scanned <= Len(line)
        /\ Concat(tokens) = StripWS(SubSeq(line, 1, scanned))
        /\ scanned < Len(line) =>
             /\ line[scanned + 1] \notin Whitespace \cup NumberChars
             /\ \A k \in DOMAIN Predefined_Tokens :
                  Slice(line, scanned, scanned + Len(Predefined_Tokens[k])) # Predefined_Tokens[k]
        /\ \A i \in DOMAIN tokens :
             LET t == tokens[i]
                 end == at[i] + Len(t)
             IN  /\ t \in Range(Predefined_Tokens) \/ IsNumberToken(t)
                 /\ Slice(line, at[i], end) = t
                 /\ IsNumberToken(t) =>
                      /\ end < Len(line) => line[end + 1] \notin NumberChars
                      /\ at[i] > 0 => line[at[i]] \notin NumberChars
                 /\ (Len(t) = 1 /\ t \in Range(Predefined_Tokens) /\ end < Len(line)) =>
                      <<t[1], line[end + 1]>> \notin Range(Predefined_Tokens)

\* C9's case: after a '**' and a number of two characters the scan has
\* stopped at a single '<', leaving the rest of the line untokenised.
C9_Witness ==
  /\ AfterTokenise
  /\ Len(tokens) = 2
  /\ tokens[1] = <<"*", "*">>
  /\ IsNumberToken(tokens[2]) /\ Len(tokens[2]) = 2
  /\ scanned < Len(line)
  /\ line[scanned + 1] = "<"

====
